---- MODULE Spec2Model ----
(***************************************************************************)
(* Elevation-profile engine of lidar_polygons (backend/server.js,          *)
(* POST /api/elevation-profile).                                           *)
(*                                                                         *)
(* Number model.  Coordinates are fixed-point integers: one unit is 1e-5   *)
(* degree (about 1.1 m on the ground) for WGS84 longitude/latitude, and    *)
(* 1e-5 native unit for raster coordinates.  The model works at the        *)
(* equator, where cos(lat) = 1.  A JavaScript Number that holds a          *)
(* coordinate is a value with MantissaBits significant bits; the           *)
(* arithmetic of interpolateSegment and the running sum of the profile     *)
(* loop round every result to that precision (Fl).  The pixel arithmetic   *)
(* of geoToPixel is carried out exactly and rounded once by Math.round.    *)
(* JavaScript values that share a slot with numbers (null, undefined, NaN, *)
(* +-Infinity) are encoded as integers outside the elevation range.        *)
(* A path of a kilometre is followed in a finer number model (1e-7 degree, *)
(* millimetres).                                                           *)
(*                                                                         *)
(* The client (frontend/src/App.tsx with the hooks useFlightPath,          *)
(* useUndoRedo and useElevationProfile) is modelled render by render: an   *)
(* event handler runs together with the render and the effects after it.   *)
(***************************************************************************)
EXTENDS Integers, Sequences, FiniteSets, TLC

\* ------------------------------------------------------------------ bounds
MantissaBits == 3
MaxVertices == 3
QueryReach == 8
MaxInterval == 7
BoundReach == 1
ScenarioReach == 2
StraightReach == 2
MaxRequests == 2

\* ------------------------------------------------- encoded JavaScript values
NaNValue == 1000001
PosInf == 1000002
NegInf == 1000003
Null == 1000004
Undefined == 1000005

IsNaNJs(v) == v \in {NaNValue, Undefined}
IsFiniteJs(v) == v \notin {NaNValue, Undefined, PosInf, NegInf}

\* ------------------------------------------------------------ arithmetic
Abs(x) == IF x < 0 THEN -x ELSE x
Max(a, b) == IF a >= b THEN a ELSE b
Min(a, b) == IF a <= b THEN a ELSE b

\* Math.ceil(n/d) for d > 0 (\div is the floor)
CeilDiv(n, d) == -((-n) \div d)
\* Math.round(n/d) for d > 0: nearest integer, halves towards +Infinity
MathRound(n, d) == (2 * n + d) \div (2 * d)

RECURSIVE Pow2(_)
Pow2(k) == IF k = 0 THEN 1 ELSE 2 * Pow2(k - 1)

RECURSIVE BitLength(_)
BitLength(n) == IF n = 0 THEN 0 ELSE 1 + BitLength(n \div 2)

\* Round a non-negative integer to `bits` significant bits, ties to even.
FlAbs(n, bits) ==
    IF BitLength(n) <= bits THEN n
    ELSE LET q == Pow2(BitLength(n) - bits)
             down == (n \div q) * q
             r == n - down
         IN  IF 2 * r < q THEN down
             ELSE IF 2 * r > q THEN down + q
             ELSE IF (n \div q) % 2 = 0 THEN down ELSE down + q

FlP(x, bits) == IF x < 0 THEN -FlAbs(-x, bits) ELSE FlAbs(x, bits)
Fl(x) == FlP(x, MantissaBits)

RECURSIVE ISqrtRec(_, _, _)
ISqrtRec(n, lo, hi) ==
    IF lo >= hi THEN lo
    ELSE LET mid == (lo + hi + 1) \div 2
         IN  IF mid * mid <= n THEN ISqrtRec(n, mid, hi)
             ELSE ISqrtRec(n, lo, mid - 1)
ISqrt(n) == ISqrtRec(n, 0, 46340)

\* ------------------------------------------------------ program constants
UnitsPerDegree == 100000
HaversineMetersPerDegree == 111195
MetersPerDegreeLat == 111320
SamplingInterval == 5
DefaultRadius == 50
ProbeReach == 2
MaxGeoLon == 180
MaxGeoLat == 90
FarUnits == 2000
FarMeters == 20000000

\* calculateDistance: Haversine distance in whole metres between two WGS84
\* points given in units.  At the model's scale the great circle is the
\* straight line: R*c = (R*pi/180) * sqrt(dLat^2 + dLon^2) degrees.
\* Arguments further apart than FarUnits (raster-native numbers passed as
\* degrees) are beyond every radius of the model.
CalculateDistance(c1, c2) ==
    LET dLon == c2[1] - c1[1]
        dLat == c2[2] - c1[2]
    IN  IF Abs(dLon) > FarUnits \/ Abs(dLat) > FarUnits THEN FarMeters
        ELSE (ISqrt(100 * (dLon * dLon + dLat * dLat))
                 * (HaversineMetersPerDegree \div 10)) \div UnitsPerDegree

\* calculateDistance(c1, c2) > radiusMeters (server.js 672-673), decided on
\* the distance in millimetres.  A unit is more than a metre, so points
\* further apart than radiusMeters units in one axis are beyond the radius.
DistanceExceeds(c1, c2, radiusMeters) ==
    LET dLon == c2[1] - c1[1]
        dLat == c2[2] - c1[2]
    IN  IF Abs(dLon) > radiusMeters \/ Abs(dLat) > radiusMeters THEN TRUE
        ELSE (ISqrt(10000 * (dLon * dLon + dLat * dLat))
                 * (HaversineMetersPerDegree \div 10)) \div 1000
                > radiusMeters * 1000

\* ------------------------------------------------------------- the rasters
\* A decoded GeoTIFF as the handler sees it (server.js 427-466): size, band 0,
\* GDAL no-data value (Null when the file has none), bounding box
\* <<minX, minY, maxX, maxY>>, the ModelTiepoint/ModelPixelScale tags (hasModel
\* FALSE when the file has none), and the EPSG code of its geo keys (0: none).
GeoFallbackRaster ==
    [width |-> 3, height |-> 3,
     pixels |-> <<10, 20, -9999, 15, NaNValue, 35, 12, 22, 32>>,
     noData |-> -9999, bbox |-> <<2, 2, 8, 8>>, hasModel |-> FALSE,
     tiepoint |-> <<0, 0, 0, 0>>, scale |-> <<1, 1>>, epsg |-> 0]

GeoAffineRaster ==
    [width |-> 4, height |-> 3,
     pixels |-> <<10, 20, 30, 40, 15, -9999, PosInf, 45, 12, 0, 32, 42>>,
     noData |-> Null, bbox |-> <<2, 2, 10, 8>>, hasModel |-> TRUE,
     tiepoint |-> <<0, 0, 2, 8>>, scale |-> <<2, 2>>, epsg |-> 4326]

ProjOrigin == <<18000100, 9000100>>

ProjAffineRaster ==
    [width |-> 3, height |-> 3,
     pixels |-> <<10, 20, 30, 15, 25, -9999, 12, 22, 32>>,
     noData |-> -9999,
     bbox |-> <<ProjOrigin[1] + 2, ProjOrigin[2] + 2, ProjOrigin[1] + 8, ProjOrigin[2] + 8>>,
     hasModel |-> TRUE,
     tiepoint |-> <<0, 0, ProjOrigin[1] + 2, ProjOrigin[2] + 8>>,
     scale |-> <<2, 2>>, epsg |-> 32636]

\* the same file tagged with a projected CRS that proj4 has no definition for
ProjUnknownCrsRaster == [ProjAffineRaster EXCEPT !.epsg = 2039]

\* a projected file without a CRS key and without the model tags
ProjFallbackRaster ==
    [ProjAffineRaster EXCEPT !.epsg = 0, !.hasModel = FALSE]

Rasters ==
    {GeoFallbackRaster, GeoAffineRaster, ProjAffineRaster, ProjUnknownCrsRaster,
     ProjFallbackRaster}

\* mutant: a bound at the limit counts as beyond it
IsProjectedInclusive(bbox) ==
    \/ Abs(bbox[1]) >= MaxGeoLon * UnitsPerDegree
    \/ Abs(bbox[2]) >= MaxGeoLat * UnitsPerDegree
    \/ Abs(bbox[3]) >= MaxGeoLon * UnitsPerDegree
    \/ Abs(bbox[4]) >= MaxGeoLat * UnitsPerDegree

\* isProjected (server.js 311-312 and 435-436); the bounds are in units of 1e-5
IsProjected(bbox) ==
    \/ Abs(bbox[1]) > MaxGeoLon * UnitsPerDegree
    \/ Abs(bbox[2]) > MaxGeoLat * UnitsPerDegree
    \/ Abs(bbox[3]) > MaxGeoLon * UnitsPerDegree
    \/ Abs(bbox[4]) > MaxGeoLat * UnitsPerDegree

DefaultEpsg == 32636

\* mutant: no default for a projected raster without a CRS key
SourceProjNoDefault(r) == IF r.epsg # 0 THEN r.epsg ELSE Null

\* sourceProj (server.js 439-456): the EPSG code of the geo keys, the default
\* when the raster is projected and has none, else Null
SourceProj(r) ==
    IF r.epsg # 0 THEN r.epsg
    ELSE IF IsProjected(r.bbox) THEN DefaultEpsg
    ELSE Null

\* proj4 throws for a CRS name it has no definition for
Proj4Defined == {4326, 32636}
Proj4Throws(proj) == proj \notin Proj4Defined

\* proj4('EPSG:4326', sourceProj, .) and its inverse: the projection of the
\* model is the translation by ProjOrigin
Proj4Forward(c) == <<c[1] + ProjOrigin[1], c[2] + ProjOrigin[2]>>
Proj4Inverse(c) == <<c[1] - ProjOrigin[1], c[2] - ProjOrigin[2]>>

Transforms(r) == IsProjected(r.bbox) /\ SourceProj(r) # Null

\* A query point is (lon + dLon/den, lat + dLat/den): a point in whole units
\* plus the radius offset of the bounding-box corners.
Query(lon, lat, dLon, dLat, den) ==
    [lon |-> lon, lat |-> lat, dLon |-> dLon, dLat |-> dLat, den |-> den]
PointQuery(lon, lat) == Query(lon, lat, 0, 0, 1)

NoPixel == [ok |-> FALSE, pixelX |-> 0, pixelY |-> 0]

\* geoToPixel (server.js 469-502); NoPixel is the null return
GeoToPixel(r, q) ==
    IF Transforms(r) /\ Proj4Throws(SourceProj(r)) THEN NoPixel
    ELSE LET xy == IF Transforms(r) THEN Proj4Forward(<<q.lon, q.lat>>)
                   ELSE <<q.lon, q.lat>>
             minX == r.bbox[1]
             minY == r.bbox[2]
             maxX == r.bbox[3]
             maxY == r.bbox[4]
         IN  IF r.hasModel
             THEN LET tieI == r.tiepoint[1]
                      tieJ == r.tiepoint[2]
                      geoX == r.tiepoint[3]
                      geoY == r.tiepoint[4]
                      scaleX == r.scale[1]
                      scaleY == r.scale[2]
                  IN  [ok |-> TRUE,
                       pixelX |-> MathRound((xy[1] - geoX) * q.den + q.dLon
                                              + tieI * scaleX * q.den,
                                            scaleX * q.den),
                       pixelY |-> MathRound((geoY - xy[2]) * q.den - q.dLat
                                              + tieJ * scaleY * q.den,
                                            scaleY * q.den)]
             ELSE [ok |-> TRUE,
                   pixelX |-> MathRound(((xy[1] - minX) * q.den + q.dLon) * r.width,
                                        (maxX - minX) * q.den),
                   pixelY |-> MathRound(((maxY - xy[2]) * q.den - q.dLat) * r.height,
                                        (maxY - minY) * q.den)]

\* mutant: only the no-data value is filtered
IsElevationNoDataOnly(r, v) ==
    ~(r.noData # Null /\ r.noData # Undefined /\ v = r.noData)

\* the no-data / NaN / non-finite test of server.js 556-560 (and 684-689,
\* 711-712): TRUE when the stored value counts as an elevation
IsElevation(r, v) ==
    /\ ~(r.noData # Null /\ r.noData # Undefined /\ v = r.noData)
    /\ ~(IsNaNJs(v) \/ ~IsFiniteJs(v))

\* mutant: the upper clamp is missing
ClampXLowerOnly(r, px) == Max(0, px)

ClampX(r, px) == Max(0, Min(r.width - 1, px))

\* mutant: the lower clamp is missing
ClampYUpperOnly(r, py) == Min(r.height - 1, py)

ClampY(r, py) == Max(0, Min(r.height - 1, py))

\* the array index sampleElevation reads (server.js 546-550)
SampleIndex(r, pixel) == ClampY(r, pixel.pixelY) * r.width + ClampX(r, pixel.pixelX)

\* elevationData[index]: undefined outside the array
ElevationData(r, index) ==
    IF index >= 0 /\ index < Len(r.pixels) THEN r.pixels[index + 1] ELSE Undefined

\* mutant: the null pixel is not tested for
SampleElevationOfAnyPixel(r, lon, lat) ==
    LET pixel == GeoToPixel(r, PointQuery(lon, lat))
        elevation == ElevationData(r, SampleIndex(r, pixel))
    IN  IF IsElevation(r, elevation) THEN elevation ELSE Null

\* sampleElevation (server.js 537-563)
SampleElevation(r, lon, lat) ==
    LET pixel == GeoToPixel(r, PointQuery(lon, lat))
    IN  IF ~pixel.ok THEN Null
        ELSE LET elevation == ElevationData(r, SampleIndex(r, pixel))
             IN  IF IsElevation(r, elevation) THEN elevation ELSE Null

\* ------------------------------------------------- getMinMaxElevationInRadius
SetMin(S) == CHOOSE x \in S : \A y \in S : x <= y
SetMax(S) == CHOOSE x \in S : \A y \in S : x >= y

\* the clamped pixel window of server.js 577-595; ok FALSE when geoToPixel
\* returned null for a corner
PixelWindow(r, lon, lat, radiusMeters) ==
    LET off == radiusMeters * UnitsPerDegree
        minPixel == GeoToPixel(r, Query(lon, lat, -off, -off, MetersPerDegreeLat))
        maxPixel == GeoToPixel(r, Query(lon, lat, off, off, MetersPerDegreeLat))
    IN  [ok |-> minPixel.ok /\ maxPixel.ok,
         minPixelX |-> ClampX(r, minPixel.pixelX),
         maxPixelX |-> ClampX(r, maxPixel.pixelX),
         minPixelY |-> ClampY(r, minPixel.pixelY),
         maxPixelY |-> ClampY(r, maxPixel.pixelY)]

\* metersPerPixelX / metersPerPixelY (server.js 610-634): each is the fraction
\* <<numerator, denominator>> of native units per pixel, times
\* factor / UnitsPerDegree metres per native unit
MetersPerPixel(r) ==
    [x |-> IF r.hasModel THEN <<r.scale[1], 1>>
           ELSE <<r.bbox[3] - r.bbox[1], r.width>>,
     y |-> IF r.hasModel THEN <<r.scale[2], 1>>
           ELSE <<r.bbox[4] - r.bbox[2], r.height>>,
     factor |-> IF IsProjected(r.bbox) THEN 1 ELSE MetersPerDegreeLat]

\* estimatedPixelsInRadius (server.js 637) as a fraction
EstimatedPixelsInRadius(r, radiusMeters) ==
    LET m == MetersPerPixel(r)
        least == IF m.x[1] * m.y[2] <= m.y[1] * m.x[2] THEN m.x ELSE m.y
        n == radiusMeters * least[2] * UnitsPerDegree
        d == least[1] * m.factor
    IN  IF n < 10 * d THEN <<10, 1>>
        ELSE IF n > 200 * d THEN <<200, 1>>
        ELSE <<n, d>>

\* mutant: the step is not raised to 1
StepSizeFloor(r, w, radiusMeters) ==
    LET prod == (w.maxPixelX - w.minPixelX) * (w.maxPixelY - w.minPixelY)
        est == EstimatedPixelsInRadius(r, radiusMeters)
    IN  IF prod < 0 THEN NaNValue
        ELSE ISqrt((prod * est[2]) \div est[1])

\* stepSize (server.js 638); NaNValue when the window product is negative
StepSize(r, w, radiusMeters) ==
    LET prod == (w.maxPixelX - w.minPixelX) * (w.maxPixelY - w.minPixelY)
        est == EstimatedPixelsInRadius(r, radiusMeters)
    IN  IF prod < 0 THEN NaNValue
        ELSE Max(1, ISqrt((prod * est[2]) \div est[1]))

\* the values a for loop "for (v = lo; v <= hi; v += step)" takes
LoopValues(lo, hi, step) ==
    IF step = NaNValue THEN (IF lo <= hi THEN {lo} ELSE {})
    ELSE {v \in lo..hi : (v - lo) % step = 0}

\* the pixels the stepped scan visits (server.js 641-642)
ScanPixels(r, w, radiusMeters) ==
    LET step == StepSize(r, w, radiusMeters)
    IN  LoopValues(w.minPixelX, w.maxPixelX, step)
            \X LoopValues(w.minPixelY, w.maxPixelY, step)

\* mutant: the row axis is not inverted on the way back
ScanCoordinateNotInverted(r, px, py) ==
    IF r.hasModel
    THEN LET geoXcoord == (px - r.tiepoint[1]) * r.scale[1] + r.tiepoint[3]
             geoYcoord == r.tiepoint[4] + (py - r.tiepoint[2]) * r.scale[2]
         IN  IF Transforms(r)
             THEN IF Proj4Throws(SourceProj(r))
                  THEN [ok |-> FALSE, c |-> <<0, 0>>]
                  ELSE [ok |-> TRUE, c |-> Proj4Inverse(<<geoXcoord, geoYcoord>>)]
             ELSE [ok |-> TRUE, c |-> <<geoXcoord, geoYcoord>>]
    ELSE [ok |-> TRUE,
          c |-> <<r.bbox[1] + MathRound(px * (r.bbox[3] - r.bbox[1]), r.width),
                  r.bbox[4] - MathRound(py * (r.bbox[4] - r.bbox[2]), r.height)>>]

\* the coordinate the scan compares with the centre (server.js 644-669);
\* ok FALSE when proj4 threw
ScanCoordinate(r, px, py) ==
    IF r.hasModel
    THEN LET geoXcoord == (px - r.tiepoint[1]) * r.scale[1] + r.tiepoint[3]
             geoYcoord == r.tiepoint[4] - (py - r.tiepoint[2]) * r.scale[2]
         IN  IF Transforms(r)
             THEN IF Proj4Throws(SourceProj(r))
                  THEN [ok |-> FALSE, c |-> <<0, 0>>]
                  ELSE [ok |-> TRUE, c |-> Proj4Inverse(<<geoXcoord, geoYcoord>>)]
             ELSE [ok |-> TRUE, c |-> <<geoXcoord, geoYcoord>>]
    ELSE [ok |-> TRUE,
          c |-> <<r.bbox[1] + MathRound(px * (r.bbox[3] - r.bbox[1]), r.width),
                  r.bbox[4] - MathRound(py * (r.bbox[4] - r.bbox[2]), r.height)>>]

\* the scanned pixels that pass the radius filter and hold an elevation
\* (server.js 671-694)
ScanAccepted(r, w, lon, lat, radiusMeters) ==
    {p \in ScanPixels(r, w, radiusMeters) :
        LET g == ScanCoordinate(r, p[1], p[2])
            index == p[2] * r.width + p[1]
        IN  /\ g.ok
            /\ ~DistanceExceeds(<<lon, lat>>, g.c, radiusMeters)
            /\ index >= 0 /\ index < Len(r.pixels)
            /\ IsElevation(r, r.pixels[index + 1])}

\* mutant: the probe visits the neighbours but not the centre pixel itself
ProbeAcceptedNoCentre(r, centerPixel) ==
    {p \in ((centerPixel.pixelX - ProbeReach)..(centerPixel.pixelX + ProbeReach))
            \X ((centerPixel.pixelY - ProbeReach)..(centerPixel.pixelY + ProbeReach)) :
        /\ p # <<centerPixel.pixelX, centerPixel.pixelY>>
        /\ ~(p[1] < 0 \/ p[1] >= r.width \/ p[2] < 0 \/ p[2] >= r.height)
        /\ IsElevation(r, ElevationData(r, p[2] * r.width + p[1]))}

\* the neighbours of the centre pixel that lie in the raster and hold an
\* elevation (server.js 698-718)
ProbeAccepted(r, centerPixel) ==
    {p \in ((centerPixel.pixelX - ProbeReach)..(centerPixel.pixelX + ProbeReach))
            \X ((centerPixel.pixelY - ProbeReach)..(centerPixel.pixelY + ProbeReach)) :
        /\ ~(p[1] < 0 \/ p[1] >= r.width \/ p[2] < 0 \/ p[2] >= r.height)
        /\ IsElevation(r, ElevationData(r, p[2] * r.width + p[1]))}

NoMinMax == [min |-> Null, max |-> Null]

\* getMinMaxElevationInRadius (server.js 566-725)
GetMinMaxElevationInRadius(r, lon, lat, radiusMeters) ==
    LET w == PixelWindow(r, lon, lat, radiusMeters)
        centerPixel == GeoToPixel(r, PointQuery(lon, lat))
    IN  IF ~w.ok \/ ~centerPixel.ok THEN NoMinMax
        ELSE LET used == ScanAccepted(r, w, lon, lat, radiusMeters)
                            \cup ProbeAccepted(r, centerPixel)
                 values == {r.pixels[p[2] * r.width + p[1] + 1] : p \in used}
             IN  IF used = {} THEN NoMinMax
                 ELSE [min |-> SetMin(values), max |-> SetMax(values)]

\* -------------------------------------------------------------- densify
\* interpolateSegment (server.js 521-534).  Every arithmetic result is a
\* Number: end - start, its product with t = i/(numPoints-1), and the sum.
NumPoints(start, end, intervalMeters) ==
    Max(2, CeilDiv(CalculateDistance(start, end), intervalMeters))

Lerp(a, b, i, n) == Fl(a + Fl(MathRound(Fl(b - a) * i, n - 1)))

\* mutant: t = i / numPoints, so that the last point stops short of the end
InterpolateSegmentShort(start, end, intervalMeters) ==
    LET numPoints == NumPoints(start, end, intervalMeters)
    IN  [k \in 1..numPoints |->
            <<Lerp(start[1], end[1], k - 1, numPoints + 1),
              Lerp(start[2], end[2], k - 1, numPoints + 1)>>]

InterpolateSegment(start, end, intervalMeters) ==
    LET numPoints == NumPoints(start, end, intervalMeters)
    IN  [k \in 1..numPoints |->
            <<Lerp(start[1], end[1], k - 1, numPoints),
              Lerp(start[2], end[2], k - 1, numPoints)>>]

\* mutant: the inner loop starts at j = 0 and repeats every join point
RECURSIVE SegmentPointsFromWithJoin(_, _, _)
SegmentPointsFromWithJoin(coordinates, i, intervalMeters) ==
    IF i > Len(coordinates) - 1 THEN <<>>
    ELSE InterpolateSegment(coordinates[i], coordinates[i + 1], intervalMeters)
            \o SegmentPointsFromWithJoin(coordinates, i + 1, intervalMeters)

\* the loop of server.js 736-747 from segment i on: every segment's points but
\* its first
RECURSIVE SegmentPointsFrom(_, _, _)
SegmentPointsFrom(coordinates, i, intervalMeters) ==
    IF i > Len(coordinates) - 1 THEN <<>>
    ELSE Tail(InterpolateSegment(coordinates[i], coordinates[i + 1], intervalMeters))
            \o SegmentPointsFrom(coordinates, i + 1, intervalMeters)

\* allPoints (server.js 727-747)
AllPoints(coordinates, intervalMeters) ==
    <<coordinates[1]>> \o SegmentPointsFrom(coordinates, 1, intervalMeters)

\* ------------------------------------------------------------ the request
\* req.body.coordinates: absent, a value that is no array, or an array of
\* [lon, lat] pairs
Vertices == {<<1, 1>>, <<10, 4>>, <<5, 6>>, <<5, 16>>}

RECURSIVE Paths(_)
Paths(n) ==
    IF n = 0 THEN {<<>>}
    ELSE Paths(n - 1)
            \cup {Append(p, v) : p \in {q \in Paths(n - 1) : Len(q) = n - 1},
                                 v \in Vertices}

CoordinateValues ==
    {[kind |-> "undefined", points |-> <<>>], [kind |-> "object", points |-> <<>>]}
        \cup {[kind |-> "array", points |-> p] : p \in Paths(MaxVertices)}

\* req.body.radiusMeters: absent or a number of metres
RadiusValues == {Undefined, 0, 3, 20}

\* req.body.dtmPath: absent, a path that ends in "/", a file that is not in
\* the uploads directory, the uploaded file
DtmPathValues == {"undefined", "uploads/", "uploads/gone.tif", "uploads/dtm.tif"}

\* every radius with the paths of up to 2 vertices, an absent and a small
\* radius with the longer ones, and every dtmPath with the short paths
Requests ==
    {[coordinates |-> c, dtmPath |-> "uploads/dtm.tif", radiusMeters |-> rad] :
        c \in {x \in CoordinateValues : Len(x.points) <= 2}, rad \in RadiusValues}
      \cup {[coordinates |-> c, dtmPath |-> "uploads/dtm.tif", radiusMeters |-> rad] :
                c \in CoordinateValues, rad \in {Undefined, 3}}
      \cup {[coordinates |-> c, dtmPath |-> d, radiusMeters |-> Undefined] :
                c \in {x \in CoordinateValues : Len(x.points) <= 2},
                d \in DtmPathValues}

VARIABLES
    req,                \* the body of the request being served
    file,               \* the raster stored as uploads/dtm.tif
    pc,                 \* where the handler is
    rasterReads,        \* calls of fromFile / getImage / readRasters so far
    allPoints,          \* the densified path
    i,                  \* the profile loop's index (0-based, as in the code)
    profile,            \* the samples pushed so far
    cumulativeDistance, \* the running distance of the profile loop
    last,               \* what sampleElevation and getMinMaxElevationInRadius
                        \* returned in the last iteration, and the sample pushed
    response            \* the response sent

vars ==
    <<req, file, pc, rasterReads, allPoints, i, profile, cumulativeDistance, last,
      response>>

NoResponse == [status |-> 0, error |-> "", profile |-> <<>>]
NoEntry ==
    [distance |-> 0, elevation |-> 0, longitude |-> 0, latitude |-> 0,
     minElevation |-> Undefined, maxElevation |-> Undefined]
NoLast ==
    [set |-> FALSE, lon |-> 0, lat |-> 0, pixel |-> NoPixel, index |-> 0,
     elevation |-> Null, radius |-> Undefined, minMax |-> NoMinMax,
     entry |-> NoEntry]

Init ==
    /\ req \in Requests
    /\ file \in Rasters
    /\ pc = "received"
    /\ rasterReads = 0
    /\ allPoints = <<>>
    /\ i = 0
    /\ profile = <<>>
    /\ cumulativeDistance = 0
    /\ last = NoLast
    /\ response = NoResponse

\* mutant: the length test off by one
InvalidCoordinatesOffByOne(c) ==
    c.kind = "undefined" \/ c.kind # "array" \/ Len(c.points) < 1

\* !coordinates || !Array.isArray(coordinates) || coordinates.length < 2
InvalidCoordinates(c) ==
    c.kind = "undefined" \/ c.kind # "array" \/ Len(c.points) < 2

Reject(status, error) ==
    /\ response' = [status |-> status, error |-> error, profile |-> <<>>]
    /\ pc' = "done"
    /\ UNCHANGED <<req, file, rasterReads, allPoints, i, profile,
                   cumulativeDistance, last>>

\* server.js 399-421: the checks that precede the raster load
Validate ==
    /\ pc = "received"
    /\ IF InvalidCoordinates(req.coordinates)
       THEN Reject(400, "Invalid coordinates array")
       ELSE IF req.dtmPath = "undefined"
       THEN Reject(400, "DTM path is required")
       ELSE IF req.dtmPath = "uploads/"
       THEN Reject(400, "Invalid DTM path")
       ELSE IF req.dtmPath # "uploads/dtm.tif"
       THEN Reject(404, "DTM file not found")
       ELSE /\ pc' = "load"
            /\ UNCHANGED <<req, file, rasterReads, allPoints, i, profile,
                           cumulativeDistance, last, response>>

\* server.js 426-466: fromFile, getImage, getBoundingBox, readRasters.  For a
\* file without georeferencing tags getBoundingBox throws, and the handler's
\* catch (server.js 808-814) answers 500 with the error's message.
LoadRaster ==
    /\ pc = "load"
    /\ IF Len(file.bbox) # 4
       THEN /\ response' = [status |-> 500,
                            error |-> "The image does not have an affine transformation.",
                            profile |-> <<>>]
            /\ pc' = "done"
            /\ UNCHANGED rasterReads
       ELSE /\ rasterReads' = rasterReads + 1
            /\ pc' = "densify"
            /\ UNCHANGED response
    /\ UNCHANGED <<req, file, allPoints, i, profile, cumulativeDistance, last>>

\* server.js 727-753
Densify ==
    /\ pc = "densify"
    /\ allPoints' = AllPoints(req.coordinates.points, SamplingInterval)
    /\ i' = 0
    /\ pc' = "sample"
    /\ UNCHANGED <<req, file, rasterReads, profile, cumulativeDistance, last,
                   response>>

\* const radius = radiusMeters || 50 (server.js 410)
Radius(radiusMeters) ==
    IF radiusMeters = Undefined \/ radiusMeters = 0 THEN DefaultRadius
    ELSE radiusMeters

\* mutant: the running distance is assigned, not added to
AccumulateAssign(cumulative, points, k) ==
    IF k > 0 THEN CalculateDistance(points[k], points[k + 1]) ELSE cumulative

\* cumulativeDistance after the update of server.js 759-761 in iteration k
\* (0-based); points is 1-based
Accumulate(cumulative, points, k) ==
    IF k > 0 THEN Fl(cumulative + CalculateDistance(points[k], points[k + 1]))
    ELSE cumulative

\* mutant: a missing elevation is passed on as null
ProfileEntryNull(distance, elevation, lon, lat, result) ==
    [distance |-> distance, elevation |-> elevation,
     longitude |-> lon, latitude |-> lat,
     minElevation |-> IF result.min # Null /\ result.max # Null
                      THEN result.min ELSE Undefined,
     maxElevation |-> IF result.min # Null /\ result.max # Null
                      THEN result.max ELSE Undefined]

\* the record pushed at server.js 781-788
ProfileEntry(distance, elevation, lon, lat, result) ==
    LET found == result.min # Null /\ result.max # Null
    IN  [distance |-> distance,
         elevation |-> IF elevation # Null THEN elevation ELSE 0,
         longitude |-> lon,
         latitude |-> lat,
         minElevation |-> IF found THEN result.min ELSE Undefined,
         maxElevation |-> IF found THEN result.max ELSE Undefined]

\* mutant: a point without radius statistics is skipped
PushIfSampled(samples, entry) ==
    IF entry.minElevation = Undefined THEN samples ELSE Append(samples, entry)

\* profile.push(entry) (server.js 781): the loop pushes on every iteration
Push(samples, entry) == Append(samples, entry)

\* what one iteration of the profile loop computed (server.js 756-788): the
\* point, its pixel, the sampled elevation, the radius statistics and the
\* entry built from them
Sampled(raster, lon, lat, distance, pixel, elevation, radius, result) ==
    [set |-> TRUE, lon |-> lon, lat |-> lat, pixel |-> pixel,
     index |-> IF pixel.ok THEN SampleIndex(raster, pixel) ELSE 0,
     elevation |-> elevation, radius |-> radius,
     minMax |-> result,
     entry |-> ProfileEntry(distance, elevation, lon, lat, result)]

\* one iteration of the profile loop (server.js 755-789)
SamplePoint ==
    /\ pc = "sample"
    /\ i < Len(allPoints)
    /\ LET lon == allPoints[i + 1][1]
           lat == allPoints[i + 1][2]
           radius == Radius(req.radiusMeters)
       IN  last' = Sampled(file, lon, lat,
                           Accumulate(cumulativeDistance, allPoints, i),
                           GeoToPixel(file, PointQuery(lon, lat)),
                           SampleElevation(file, lon, lat),
                           radius,
                           GetMinMaxElevationInRadius(file, lon, lat, radius))
    /\ cumulativeDistance' = last'.entry.distance
    /\ profile' = Push(profile, last'.entry)
    /\ i' = i + 1
    /\ UNCHANGED <<req, file, pc, rasterReads, allPoints, response>>

\* res.json({ profile }) (server.js 791-807)
Respond ==
    /\ pc = "sample"
    /\ ~(i < Len(allPoints))
    /\ response' = [status |-> 200, error |-> "", profile |-> profile]
    /\ pc' = "done"
    /\ UNCHANGED <<req, file, rasterReads, allPoints, i, profile,
                   cumulativeDistance, last>>

Next == Validate \/ LoadRaster \/ Densify \/ SamplePoint \/ Respond

Spec == Init /\ [][Next]_vars

\* ------------------------------------------- the two closures on their own
\* sampleElevation and getMinMaxElevationInRadius are closures over the loaded
\* raster.  QuerySpec applies them to every point of a grid that reaches
\* QueryReach units beyond the rasters on every side (the rasters lie within
\* 2..10 in both axes), with a radius below, around and above the pixel size.
QueryPoints == ((2 - QueryReach)..(10 + QueryReach)) \X ((2 - QueryReach)..(10 + QueryReach))
QueryRadii == {1, 3, 7, 20, 50}

QueryInit ==
    /\ \E p \in QueryPoints, rad \in QueryRadii :
          req = [coordinates |-> [kind |-> "array", points |-> <<p>>],
                 dtmPath |-> "uploads/dtm.tif", radiusMeters |-> rad]
    /\ file \in Rasters
    /\ pc = "query"
    /\ rasterReads = 1
    /\ allPoints = <<>>
    /\ i = 0
    /\ profile = <<>>
    /\ cumulativeDistance = 0
    /\ last = NoLast
    /\ response = NoResponse

\* sampleElevation(lon, lat) and getMinMaxElevationInRadius(lon, lat, radius)
\* (server.js 764, 771) for the query point
EvaluatePoint ==
    /\ pc = "query"
    /\ LET lon == req.coordinates.points[1][1]
           lat == req.coordinates.points[1][2]
           pixel == GeoToPixel(file, PointQuery(lon, lat))
       IN  last' = [set |-> TRUE, lon |-> lon, lat |-> lat, pixel |-> pixel,
                    index |-> IF pixel.ok THEN SampleIndex(file, pixel) ELSE 0,
                    elevation |-> SampleElevation(file, lon, lat),
                    radius |-> req.radiusMeters,
                    minMax |-> GetMinMaxElevationInRadius(file, lon, lat, req.radiusMeters),
                    entry |-> NoEntry]
    /\ pc' = "queried"
    /\ UNCHANGED <<req, file, rasterReads, allPoints, i, profile,
                   cumulativeDistance, response>>

QueryNext == EvaluatePoint

QuerySpec == QueryInit /\ [][QueryNext]_vars

\* ------------------------------------------ GET /api/dtm/:filename/raster
\* The raster endpoint answers with the bounding box of the file and with its
\* classification.  BoundsSpec serves it for files whose bounds lie at, just
\* inside and just outside the limits of longitude and latitude, and about 0.
BoundValues(limit) ==
    {0} \cup {s * (limit * UnitsPerDegree + k) :
                  s \in {-1, 1}, k \in (-BoundReach)..BoundReach}

BoundingBoxes ==
    {b \in BoundValues(MaxGeoLon) \X BoundValues(MaxGeoLat)
            \X BoundValues(MaxGeoLon) \X BoundValues(MaxGeoLat) :
        b[1] < b[3] /\ b[2] < b[4]}

FileNames == {"dtm.tif", "gone.tif"}

BoundsInit ==
    /\ req \in [filename : FileNames]
    /\ \E b \in BoundingBoxes : file = [GeoFallbackRaster EXCEPT !.bbox = b]
    /\ pc = "raster"
    /\ rasterReads = 0
    /\ allPoints = <<>>
    /\ i = 0
    /\ profile = <<>>
    /\ cumulativeDistance = 0
    /\ last = NoLast
    /\ response = NoResponse

\* server.js 218-345: 404 for a file that is not in the uploads directory,
\* else the response data with bounds and isProjected
GetRaster ==
    /\ pc = "raster"
    /\ IF req.filename # "dtm.tif"
       THEN /\ response' = [status |-> 404, error |-> "File not found",
                            profile |-> <<>>]
            /\ UNCHANGED rasterReads
       ELSE /\ response' = [status |-> 200, width |-> file.width,
                            height |-> file.height, bounds |-> file.bbox,
                            noDataValue |-> file.noData,
                            isProjected |-> IsProjected(file.bbox)]
            /\ rasterReads' = rasterReads + 1
    /\ pc' = "served"
    /\ UNCHANGED <<req, file, allPoints, i, profile, cumulativeDistance, last>>

BoundsNext == GetRaster

BoundsSpec == BoundsInit /\ [][BoundsNext]_vars

\* ------------------------------------------- geo -> pixel -> geo and back
\* a geographic file whose tie point is pixel (1, 1) and whose pixels are not
\* square
GeoTiedRaster ==
    [width |-> 3, height |-> 2,
     pixels |-> <<10, 20, 30, 15, 25, 35>>,
     noData |-> -9999, bbox |-> <<2, 4, 11, 8>>, hasModel |-> TRUE,
     tiepoint |-> <<1, 1, 5, 6>>, scale |-> <<3, 2>>, epsg |-> 4326]

AffineRasters == {r \in Rasters : r.hasModel} \cup {GeoTiedRaster}

\* pixel indices from QueryReach before the first to QueryReach after the last
\* column / row of the largest raster
QueryPixels == ((-QueryReach)..(3 + QueryReach)) \X ((-QueryReach)..(3 + QueryReach))

RoundTripInit ==
    /\ \/ \E p \in QueryPoints : req = [kind |-> "geo", at |-> p]
       \/ \E p \in QueryPixels : req = [kind |-> "pixel", at |-> p]
    /\ file \in AffineRasters
    /\ pc = "trip"
    /\ rasterReads = 1
    /\ allPoints = <<>>
    /\ i = 0
    /\ profile = <<>>
    /\ cumulativeDistance = 0
    /\ last = NoLast
    /\ response = NoResponse

\* geoToPixel (server.js 469-502) followed by the scan's conversion of the
\* pixel back to a coordinate (server.js 646-664)
GeoRoundTrip ==
    /\ pc = "trip"
    /\ req.kind = "geo"
    /\ LET pixel == GeoToPixel(file, PointQuery(req.at[1], req.at[2]))
           back == IF pixel.ok THEN ScanCoordinate(file, pixel.pixelX, pixel.pixelY)
                   ELSE [ok |-> FALSE, c |-> <<0, 0>>]
       IN  last' = [set |-> TRUE, ok |-> pixel.ok /\ back.ok, pixel |-> pixel,
                    geo |-> back.c]
    /\ pc' = "tripped"
    /\ UNCHANGED <<req, file, rasterReads, allPoints, i, profile,
                   cumulativeDistance, response>>

\* the scan's conversion of a pixel to a coordinate followed by geoToPixel
PixelRoundTrip ==
    /\ pc = "trip"
    /\ req.kind = "pixel"
    /\ LET geo == ScanCoordinate(file, req.at[1], req.at[2])
           pixel == IF geo.ok THEN GeoToPixel(file, PointQuery(geo.c[1], geo.c[2]))
                    ELSE NoPixel
       IN  last' = [set |-> TRUE, ok |-> geo.ok /\ pixel.ok, pixel |-> pixel,
                    geo |-> geo.c]
    /\ pc' = "tripped"
    /\ UNCHANGED <<req, file, rasterReads, allPoints, i, profile,
                   cumulativeDistance, response>>

RoundTripNext == GeoRoundTrip \/ PixelRoundTrip

RoundTripSpec == RoundTripInit /\ [][RoundTripNext]_vars

\* ------------------------------------- one centre point under two radii
\* getMinMaxElevationInRadius called for the same point of the same raster
\* with a radius and with a radius that is not smaller
\* a geographic file of two rows whose pixels are five times as high as wide
GeoWideRaster ==
    [width |-> 8, height |-> 2,
     pixels |-> <<50, 50, 50, 50, 50, 50, 50, 50,
                  50, 5, 50, 50, 50, 50, 50, 95>>,
     noData |-> -9999, bbox |-> <<2, 2, 10, 12>>, hasModel |-> TRUE,
     tiepoint |-> <<0, 0, 2, 12>>, scale |-> <<1, 5>>, epsg |-> 4326]

WidenRasters == Rasters \cup {GeoTiedRaster, GeoWideRaster}

WidenInit ==
    /\ \E p \in QueryPoints, r1 \in QueryRadii, r2 \in QueryRadii :
          /\ r1 <= r2
          /\ req = [at |-> p, r1 |-> r1, r2 |-> r2]
    /\ file \in WidenRasters
    /\ pc = "widen"
    /\ rasterReads = 1
    /\ allPoints = <<>>
    /\ i = 0
    /\ profile = <<>>
    /\ cumulativeDistance = 0
    /\ last = NoLast
    /\ response = NoResponse

EvaluateRadii ==
    /\ pc = "widen"
    /\ last' = [set |-> TRUE,
                narrow |-> GetMinMaxElevationInRadius(file, req.at[1], req.at[2], req.r1),
                wide |-> GetMinMaxElevationInRadius(file, req.at[1], req.at[2], req.r2)]
    /\ pc' = "widened"
    /\ UNCHANGED <<req, file, rasterReads, allPoints, i, profile,
                   cumulativeDistance, response>>

WidenNext == EvaluateRadii

WidenSpec == WidenInit /\ [][WidenNext]_vars

\* ------------------------------------------------ a raster of whole degrees
\* a 4x4 geographic file with bounds [0, 0, 4, 4] degrees and without model
\* tags
DegreeRaster ==
    [width |-> 4, height |-> 4,
     pixels |-> <<10, 20, 30, 40, 15, 25, 35, 45, 12, 22, 32, 42, 11, 21, 31, 41>>,
     noData |-> -9999,
     bbox |-> <<0, 0, 4 * UnitsPerDegree, 4 * UnitsPerDegree>>,
     hasModel |-> FALSE,
     tiepoint |-> <<0, 0, 0, 0>>, scale |-> <<1, 1>>, epsg |-> 0]

\* points in steps of half a degree, from ScenarioReach steps outside the
\* bounds on every side, and the point (100, 100) far outside
DegreePoints ==
    {<<x * (UnitsPerDegree \div 2), y * (UnitsPerDegree \div 2)>> :
        x \in (-ScenarioReach)..(8 + ScenarioReach),
        y \in (-ScenarioReach)..(8 + ScenarioReach)}
      \cup {<<100 * UnitsPerDegree, 100 * UnitsPerDegree>>}

DegreeInit ==
    /\ \E p \in DegreePoints :
          req = [coordinates |-> [kind |-> "array", points |-> <<p>>],
                 dtmPath |-> "uploads/dtm.tif", radiusMeters |-> Undefined]
    /\ file = DegreeRaster
    /\ pc = "sampling"
    /\ rasterReads = 1
    /\ allPoints = <<>>
    /\ i = 0
    /\ profile = <<>>
    /\ cumulativeDistance = 0
    /\ last = NoLast
    /\ response = NoResponse

\* sampleElevation(lon, lat) (server.js 764) for the point
SampleDegreePoint ==
    /\ pc = "sampling"
    /\ LET lon == req.coordinates.points[1][1]
           lat == req.coordinates.points[1][2]
           pixel == GeoToPixel(file, PointQuery(lon, lat))
       IN  last' = [NoLast EXCEPT !.set = TRUE, !.lon = lon, !.lat = lat,
                                  !.pixel = pixel,
                                  !.index = IF pixel.ok THEN SampleIndex(file, pixel)
                                            ELSE 0,
                                  !.elevation = SampleElevation(file, lon, lat)]
    /\ pc' = "sampled"
    /\ UNCHANGED <<req, file, rasterReads, allPoints, i, profile,
                   cumulativeDistance, response>>

DegreeNext == SampleDegreePoint

DegreeSpec == DegreeInit /\ [][DegreeNext]_vars

\* --------------------------------------------- a path of a kilometre
\* A path a thousand times the size of the rasters above is followed in a
\* finer number model: a coordinate is an integer of 1e-7 degree (a fine unit,
\* FinePerUnit of them to the unit, about 11 mm on the ground), a distance is
\* an integer of millimetres, and the arithmetic is exact up to the rounding
\* to these grids (the rounding of a double is smaller by many orders).
FinePerUnit == 100
MillisPerMeter == 1000
LongUnits == 3000

\* calculateDistance (server.js 505-517) of two points in fine units, in
\* millimetres.  A fine unit is HaversineMetersPerDegree / 10^7 m, that is
\* HaversineMetersPerDegree / UnitsPerDegree tenths of a millimetre short of
\* 10 mm.  Up to LongUnits per axis the root is taken in tenths of a fine
\* unit, beyond it in tens of fine units.
FineDistance(c1, c2) ==
    LET dLon == c2[1] - c1[1]
        dLat == c2[2] - c1[2]
    IN  IF Abs(dLon) <= LongUnits /\ Abs(dLat) <= LongUnits
        THEN LET tenths == ISqrt(100 * (dLon * dLon + dLat * dLat))
             IN  tenths + (tenths * (HaversineMetersPerDegree - UnitsPerDegree))
                              \div UnitsPerDegree
        ELSE LET tens == ISqrt((dLon \div 10) * (dLon \div 10)
                                  + (dLat \div 10) * (dLat \div 10))
             IN  (tens * HaversineMetersPerDegree) \div MillisPerMeter

\* interpolateSegment (server.js 521-534) in fine units
FineInterpolateSegment(start, end, intervalMeters) ==
    LET numPoints == Max(2, CeilDiv(FineDistance(start, end),
                                    intervalMeters * MillisPerMeter))
    IN  [k \in 1..numPoints |->
            <<start[1] + MathRound((end[1] - start[1]) * (k - 1), numPoints - 1),
              start[2] + MathRound((end[2] - start[2]) * (k - 1), numPoints - 1)>>]

\* allPoints (server.js 727-747) in fine units
RECURSIVE FineSegmentPointsFrom(_, _, _)
FineSegmentPointsFrom(coordinates, k, intervalMeters) ==
    IF k > Len(coordinates) - 1 THEN <<>>
    ELSE Tail(FineInterpolateSegment(coordinates[k], coordinates[k + 1],
                                     intervalMeters))
            \o FineSegmentPointsFrom(coordinates, k + 1, intervalMeters)
FineAllPoints(coordinates, intervalMeters) ==
    <<coordinates[1]>> \o FineSegmentPointsFrom(coordinates, 1, intervalMeters)

\* mutant: the running distance is assigned, not added to
FineAccumulateAssign(cumulative, points, k) ==
    IF k > 0 THEN FineDistance(points[k], points[k + 1]) ELSE cumulative

\* cumulativeDistance after the update of server.js 759-761, in millimetres
FineAccumulate(cumulative, points, k) ==
    IF k > 0 THEN cumulative + FineDistance(points[k], points[k + 1])
    ELSE cumulative

\* the unit nearest to a coordinate in fine units
ToUnits(x) == MathRound(x, FinePerUnit)

\* The straight paths: from a point near the rasters, in the directions of
\* the compass and of the triangles 3-4-5 and 5-12-13, over 1000 m (89932
\* fine units) lengthened or shortened by up to StraightReach times half a
\* metre (45 fine units)
KilometreFine == 89932
HalfMetreFine == 45
Directions ==
    {<<1, 0, 1>>, <<0, 1, 1>>, <<-1, 0, 1>>, <<0, -1, 1>>, <<3, 4, 5>>,
     <<-4, 3, 5>>, <<5, -12, 13>>, <<-12, -5, 13>>}
StraightStarts == {<<0, 0>>, <<537, 612>>}
\* and over 7 m and 12 m (630 and 1079 fine units): a segment of two points
\* and one of three
StraightLengths ==
    {KilometreFine + k * HalfMetreFine : k \in (-StraightReach)..StraightReach}
        \cup {630, 1079}
StraightPaths ==
    {<<s, <<s[1] + (d[1] * len) \div d[3], s[2] + (d[2] * len) \div d[3]>>>> :
        s \in StraightStarts, d \in Directions, len \in StraightLengths}

StraightInit ==
    /\ \E c \in StraightPaths, rad \in {Undefined, 3} :
          req = [coordinates |-> [kind |-> "array", points |-> c],
                 dtmPath |-> "uploads/dtm.tif", radiusMeters |-> rad]
    /\ file = GeoAffineRaster
    /\ pc = "received"
    /\ rasterReads = 0
    /\ allPoints = <<>>
    /\ i = 0
    /\ profile = <<>>
    /\ cumulativeDistance = 0
    /\ last = NoLast
    /\ response = NoResponse

\* server.js 727-753
FineDensify ==
    /\ pc = "densify"
    /\ allPoints' = FineAllPoints(req.coordinates.points, SamplingInterval)
    /\ i' = 0
    /\ pc' = "sample"
    /\ UNCHANGED <<req, file, rasterReads, profile, cumulativeDistance, last,
                   response>>

\* one iteration of the profile loop (server.js 755-789); the raster is looked
\* up at the unit nearest to the point
FineSamplePoint ==
    /\ pc = "sample"
    /\ i < Len(allPoints)
    /\ LET lon == allPoints[i + 1][1]
           lat == allPoints[i + 1][2]
           radius == Radius(req.radiusMeters)
       IN  last' = Sampled(file, lon, lat,
                           FineAccumulate(cumulativeDistance, allPoints, i),
                           GeoToPixel(file, PointQuery(ToUnits(lon), ToUnits(lat))),
                           SampleElevation(file, ToUnits(lon), ToUnits(lat)),
                           radius,
                           GetMinMaxElevationInRadius(file, ToUnits(lon),
                                                      ToUnits(lat), radius))
    /\ cumulativeDistance' = last'.entry.distance
    /\ profile' = Push(profile, last'.entry)
    /\ i' = i + 1
    /\ UNCHANGED <<req, file, pc, rasterReads, allPoints, response>>

StraightNext == Validate \/ LoadRaster \/ FineDensify \/ FineSamplePoint \/ Respond

StraightSpec == StraightInit /\ [][StraightNext]_vars

\* ------------------------------------------------- concurrent requests
\* Requests 1..MaxRequests are served by the same process.  A handler runs
\* until it awaits (fromFile, getImage, readRasters: server.js 427, 428, 459)
\* and another handler may run in between.  Every variable holds one value per
\* request, the handler's locals, except file, which is the uploads
\* directory all requests read.
RequestIds == 1..MaxRequests

Uploads ==
    [name \in {"uploads/dtm.tif", "uploads/other.tif"} |->
        IF name = "uploads/dtm.tif" THEN GeoAffineRaster ELSE GeoFallbackRaster]

ConcurrentRequests ==
    [coordinates : {[kind |-> "array", points |-> c] :
                       c \in {<<<<1, 1>>, <<10, 4>>>>, <<<<5, 6>>, <<5, 16>>>>,
                              <<<<5, 6>>>>}},
     dtmPath : {"uploads/dtm.tif", "uploads/other.tif", "uploads/gone.tif"},
     radiusMeters : {Undefined}]

\* the locals tiff, image and rasters of a handler that has not loaded yet
NotLoaded == [tiff |-> "", bbox |-> <<>>, elevationData |-> <<>>]

ConcurrentInit ==
    /\ req \in [RequestIds -> ConcurrentRequests]
    /\ file = Uploads
    /\ pc = [r \in RequestIds |-> "received"]
    /\ rasterReads = [r \in RequestIds |-> 0]
    /\ allPoints = [r \in RequestIds |-> <<>>]
    /\ i = [r \in RequestIds |-> 0]
    /\ profile = [r \in RequestIds |-> <<>>]
    /\ cumulativeDistance = [r \in RequestIds |-> 0]
    /\ last = [r \in RequestIds |-> NotLoaded]
    /\ response = [r \in RequestIds |-> NoResponse]

\* the profile loop (server.js 755-789) from iteration k on
RECURSIVE ProfileFrom(_, _, _, _, _)
ProfileFrom(raster, points, radius, k, cumulative) ==
    IF ~(k < Len(points)) THEN <<>>
    ELSE LET lon == points[k + 1][1]
             lat == points[k + 1][2]
             distance == Accumulate(cumulative, points, k)
             entry == ProfileEntry(distance, SampleElevation(raster, lon, lat),
                                   lon, lat,
                                   GetMinMaxElevationInRadius(raster, lon, lat,
                                                              radius))
         IN  <<entry>> \o ProfileFrom(raster, points, radius, k + 1, distance)

\* server.js 399-427: the checks, then fromFile(filePath) is awaited
Begin(r) ==
    /\ pc[r] = "received"
    /\ LET reject(status, error) ==
               /\ response' = [response EXCEPT ![r] =
                                   [status |-> status, error |-> error,
                                    profile |-> <<>>]]
               /\ pc' = [pc EXCEPT ![r] = "done"]
               /\ UNCHANGED last
       IN  IF InvalidCoordinates(req[r].coordinates)
           THEN reject(400, "Invalid coordinates array")
           ELSE IF req[r].dtmPath = "undefined"
           THEN reject(400, "DTM path is required")
           ELSE IF req[r].dtmPath = "uploads/"
           THEN reject(400, "Invalid DTM path")
           ELSE IF req[r].dtmPath \notin DOMAIN file
           THEN reject(404, "DTM file not found")
           ELSE /\ last' = [last EXCEPT ![r].tiff = req[r].dtmPath]
                /\ pc' = [pc EXCEPT ![r] = "opened"]
                /\ UNCHANGED response
    /\ UNCHANGED <<req, file, rasterReads, allPoints, i, profile,
                   cumulativeDistance>>

\* server.js 428-459: getImage() is awaited, the bounds are read, then
\* readRasters() is awaited
GetImage(r) ==
    /\ pc[r] = "opened"
    /\ last' = [last EXCEPT ![r].bbox = file[last[r].tiff].bbox]
    /\ pc' = [pc EXCEPT ![r] = "image"]
    /\ UNCHANGED <<req, file, rasterReads, allPoints, i, profile,
                   cumulativeDistance, response>>

ReadRasters(r) ==
    /\ pc[r] = "image"
    /\ last' = [last EXCEPT ![r].elevationData = file[last[r].tiff].pixels]
    /\ rasterReads' = [rasterReads EXCEPT ![r] = @ + 1]
    /\ pc' = [pc EXCEPT ![r] = "read"]
    /\ UNCHANGED <<req, file, allPoints, i, profile, cumulativeDistance,
                   response>>

\* mutant: tiff, image and rasters are variables of the module, which hold
\* what the request with the highest number that has loaded put there
LoadedShared(uploads, locals, r) ==
    LET loader == CHOOSE q \in DOMAIN locals :
                      /\ locals[q].elevationData # <<>>
                      /\ \A o \in DOMAIN locals :
                            locals[o].elevationData # <<>> => o <= q
    IN  [uploads[locals[loader].tiff] EXCEPT
            !.bbox = locals[loader].bbox,
            !.pixels = locals[loader].elevationData]

\* the raster the closures of request r read: the image of its own tiff with
\* the bounds and the band it has read itself
Loaded(uploads, locals, r) ==
    [uploads[locals[r].tiff] EXCEPT
        !.bbox = locals[r].bbox,
        !.pixels = locals[r].elevationData]

\* server.js 460-807: no await from here to res.json({ profile })
Complete(r) ==
    /\ pc[r] = "read"
    /\ allPoints' = [allPoints EXCEPT ![r] =
                         AllPoints(req[r].coordinates.points, SamplingInterval)]
    /\ i' = [i EXCEPT ![r] = Len(allPoints'[r])]
    /\ profile' = [profile EXCEPT ![r] =
                       ProfileFrom(Loaded(file, last, r), allPoints'[r],
                                   Radius(req[r].radiusMeters), 0, 0)]
    /\ cumulativeDistance' =
           [cumulativeDistance EXCEPT ![r] =
               IF profile'[r] = <<>> THEN 0
               ELSE profile'[r][Len(profile'[r])].distance]
    /\ response' = [response EXCEPT ![r] =
                        [status |-> 200, error |-> "", profile |-> profile'[r]]]
    /\ pc' = [pc EXCEPT ![r] = "done"]
    /\ UNCHANGED <<req, file, rasterReads, last>>

ConcurrentNext ==
    \E r \in RequestIds : Begin(r) \/ GetImage(r) \/ ReadRasters(r) \/ Complete(r)

ConcurrentSpec == ConcurrentInit /\ [][ConcurrentNext]_vars

\* ------------------------------------------------------ malformed files
\* a file without georeferencing tags, and a georeferenced file of no pixels
NoBoundsRaster ==
    [GeoFallbackRaster EXCEPT !.bbox = <<>>]
EmptyRaster ==
    [GeoAffineRaster EXCEPT !.width = 0, !.height = 0, !.pixels = <<>>]

MalformedInit ==
    /\ req \in {q \in Requests : q.dtmPath = "uploads/dtm.tif"}
    /\ file \in {NoBoundsRaster, EmptyRaster}
    /\ pc = "received"
    /\ rasterReads = 0
    /\ allPoints = <<>>
    /\ i = 0
    /\ profile = <<>>
    /\ cumulativeDistance = 0
    /\ last = NoLast
    /\ response = NoResponse

MalformedNext == Validate \/ LoadRaster \/ Densify \/ SamplePoint \/ Respond

MalformedSpec == MalformedInit /\ [][MalformedNext]_vars

\* ------------------------------------------------- the undo/redo store
\* useUndoRedo (unnamed/part_003 3-76) as useFlightPath uses it.  The store
\* is the record of a render: the React states state and currentIndex, the
\* array historyRef.current, and the memoised canUndo and canRedo.  A state
\* of the store is a flight path; the paths are told apart by a number.  An
\* operation runs its handler and the render that follows it.
MaxHistorySize == 50

\* the user's operations are bounded
MaxEdits == 51
MaxUndos == 1
MaxImports == 1

\* useState / useRef / useMemo of the first render (part_003 4-12)
InitialStore(initialState) ==
    [state |-> initialState, currentIndex |-> 0, history |-> <<initialState>>,
     canUndo |-> FALSE, canRedo |-> FALSE]

\* the render after a handler: useMemo (part_003 9-12) computes canUndo and
\* canRedo again only when currentIndex differs from the one of the render
\* before
Render(before, after) ==
    IF after.currentIndex # before.currentIndex
    THEN [after EXCEPT !.canUndo = after.currentIndex > 0,
                       !.canRedo = after.currentIndex < Len(after.history) - 1]
    ELSE after

\* mutant: the history is not cut to its last MaxHistorySize entries
SetStateWithHistoryUncapped(s, newState, addToHistory) ==
    IF addToHistory
    THEN LET kept == IF s.currentIndex < Len(s.history) - 1
                     THEN SubSeq(s.history, 1, s.currentIndex + 1)
                     ELSE s.history
             pushed == Append(kept, newState)
         IN  Render(s, [s EXCEPT !.history = pushed,
                                 !.currentIndex = Len(pushed) - 1,
                                 !.state = newState])
    ELSE Render(s, [s EXCEPT !.state = newState])

\* setStateWithHistory (part_003 14-41)
SetStateWithHistory(s, newState, addToHistory) ==
    IF addToHistory
    THEN LET kept == IF s.currentIndex < Len(s.history) - 1
                     THEN SubSeq(s.history, 1, s.currentIndex + 1)
                     ELSE s.history
             pushed == Append(kept, newState)
             itemsToRemove == Len(pushed) - MaxHistorySize
             cut == IF Len(pushed) > MaxHistorySize
                    THEN SubSeq(pushed, itemsToRemove + 1, Len(pushed))
                    ELSE pushed
         IN  Render(s, [s EXCEPT !.history = cut,
                                 !.currentIndex = Len(cut) - 1,
                                 !.state = newState])
    ELSE Render(s, [s EXCEPT !.state = newState])

\* mutant: undo moves the index and leaves the state
UndoIndexOnly(s) ==
    IF s.currentIndex > 0
    THEN Render(s, [s EXCEPT !.currentIndex = s.currentIndex - 1])
    ELSE s

\* undo (part_003 43-50)
Undo(s) ==
    IF s.currentIndex > 0
    THEN LET newIndex == s.currentIndex - 1
         IN  Render(s, [s EXCEPT !.currentIndex = newIndex,
                                 !.state = s.history[newIndex + 1]])
    ELSE s

\* redo (part_003 52-59)
Redo(s) ==
    IF s.currentIndex < Len(s.history) - 1
    THEN LET newIndex == s.currentIndex + 1
         IN  Render(s, [s EXCEPT !.currentIndex = newIndex,
                                 !.state = s.history[newIndex + 1]])
    ELSE s

\* resetHistory (part_003 61-65)
ResetHistory(s, newState) ==
    Render(s, [s EXCEPT !.history = <<newState>>, !.currentIndex = 0,
                        !.state = newState])

NoOperations == [edits |-> 0, undos |-> 0, imports |-> 0, op |-> "none"]

\* the store of useFlightPath (part_005 20) is last; req counts the user's
\* operations and names the latest one
UndoInit ==
    /\ last = InitialStore(0)
    /\ req = NoOperations
    /\ file = GeoAffineRaster
    /\ pc = "editing"
    /\ rasterReads = 0
    /\ allPoints = <<>>
    /\ i = 0
    /\ profile = <<>>
    /\ cumulativeDistance = 0
    /\ response = NoResponse

\* addPoint, addPoints, updatePoint, deletePoint, insertPoints, setFlightPath
\* (part_005 22-48): a path that was not there before, with addToHistory true
EditPath ==
    /\ pc = "editing"
    /\ req.edits < MaxEdits
    /\ last' = SetStateWithHistory(last, req.edits + 1, TRUE)
    /\ req' = [req EXCEPT !.edits = req.edits + 1, !.op = "edit"]
    /\ UNCHANGED <<file, pc, rasterReads, allPoints, i, profile,
                   cumulativeDistance, response>>

\* Ctrl+Z (App.tsx 95-100)
UndoKey ==
    /\ pc = "editing"
    /\ req.undos < MaxUndos
    /\ last.canUndo
    /\ last' = Undo(last)
    /\ req' = [req EXCEPT !.undos = req.undos + 1, !.op = "undo"]
    /\ UNCHANGED <<file, pc, rasterReads, allPoints, i, profile,
                   cumulativeDistance, response>>

\* Ctrl+Y (App.tsx 101-106)
RedoKey ==
    /\ pc = "editing"
    /\ last.canRedo
    /\ last.currentIndex < Len(last.history) - 1
    /\ last' = Redo(last)
    /\ req' = [req EXCEPT !.op = "redo"]
    /\ UNCHANGED <<file, pc, rasterReads, allPoints, i, profile,
                   cumulativeDistance, response>>

\* importGeoJSON (part_005 91-119) of a file that holds a LineString
ImportGeoJSON ==
    /\ pc = "editing"
    /\ req.imports < MaxImports
    /\ last' = ResetHistory(last, (MaxEdits + 1) + (req.imports + 1))
    /\ req' = [req EXCEPT !.imports = req.imports + 1, !.op = "import"]
    /\ UNCHANGED <<file, pc, rasterReads, allPoints, i, profile,
                   cumulativeDistance, response>>

UndoNext == EditPath \/ UndoKey \/ RedoKey \/ ImportGeoJSON

UndoSpec == UndoInit /\ [][UndoNext]_vars

\* ------------------------------------------------- the client's profile
\* App (frontend/src/App.tsx 34-69) with useElevationProfile
\* (unnamed/part_002 6-204).  req is what the profile effect depends on: the
\* flight path, the DTM source (NoDtmSource: null) and the search radius.
\* last is the hook's state, elevationProfile and loading, with the arguments
\* of the latest calculateProfile call.  response is the set of requests
\* whose axios.post has not settled yet, and i counts the requests sent.
MaxClientRequests == 2

ClientPaths == {<<>>, <<1>>, <<1, 2>>, <<2, 1>>, <<1, 2, 3>>}
DtmSources == {"uploads/dtm.tif", "uploads/other.tif"}
NoDtmSource == "null"
SearchRadii == {50, 20}

\* the profile the server answers for a request (one entry per vertex stands
\* for the samples), and the mock profile of the catch branch (part_002
\* 181-193)
ProfileFor(request) ==
    [n \in 1..Len(request.flightPath) |->
        [vertex |-> request.flightPath[n], dtmPath |-> request.dtmSource,
         radiusMeters |-> request.searchRadius]]
MockProfile(request) ==
    [n \in 1..Len(request.flightPath) |->
        [vertex |-> request.flightPath[n], dtmPath |-> "mock",
         radiusMeters |-> Undefined]]

\* calculateProfile up to its first await (part_002 16-55): hook is the
\* hook's state, sent the requests sent so far
CalculateProfile(hook, sent, request) ==
    IF Len(request.flightPath) < 2
    THEN [hook |-> [hook EXCEPT !.elevationProfile = <<>>,
                                !.requested = request],
          post |-> {}]
    ELSE [hook |-> [hook EXCEPT !.loading = TRUE, !.requested = request],
          post |-> {[id |-> sent + 1, flightPath |-> request.flightPath,
                     dtmSource |-> request.dtmSource,
                     searchRadius |-> request.searchRadius]}]

\* the profile effect (App.tsx 62-69) for the dependencies deps
ProfileEffect(hook, sent, deps) ==
    IF Len(deps.flightPath) = 0
    THEN CalculateProfile(hook, sent,
                          [deps EXCEPT !.dtmSource =
                              IF deps.dtmSource = NoDtmSource THEN "" ELSE deps.dtmSource])
    ELSE IF Len(deps.flightPath) >= 2 /\ deps.dtmSource # NoDtmSource
    THEN CalculateProfile(hook, sent, deps)
    ELSE [hook |-> hook, post |-> {}]

\* the first render and its effect
ClientInit ==
    /\ req = [flightPath |-> <<>>, dtmSource |-> NoDtmSource, searchRadius |-> 50]
    /\ last = [elevationProfile |-> <<>>, loading |-> FALSE,
               requested |-> [flightPath |-> <<>>, dtmSource |-> "",
                              searchRadius |-> 50]]
    /\ response = {}
    /\ i = 0
    /\ file = GeoAffineRaster
    /\ pc = "mounted"
    /\ rasterReads = 0
    /\ allPoints = <<>>
    /\ profile = <<>>
    /\ cumulativeDistance = 0

\* a change of one dependency, the render and the effect after it
Change(deps) ==
    /\ i < MaxClientRequests
    /\ deps # req
    /\ LET run == ProfileEffect(last, i, deps)
       IN  /\ last' = run.hook
           /\ response' = response \cup run.post
           /\ i' = i + Cardinality(run.post)
    /\ req' = deps
    /\ UNCHANGED <<file, pc, rasterReads, allPoints, profile, cumulativeDistance>>

\* the flight path changes (useFlightPath: an edit, undo, redo or import)
ChangePath ==
    \E path \in ClientPaths : Change([req EXCEPT !.flightPath = path])

\* handleDtmLoad (App.tsx 75-83)
HandleDtmLoad ==
    \E source \in DtmSources : Change([req EXCEPT !.dtmSource = source])

\* handleDtmUnload (App.tsx 85-88)
HandleDtmUnload == Change([req EXCEPT !.dtmSource = NoDtmSource])

\* the Search Radius input (App.tsx 153-160)
SetSearchRadius ==
    \E radius \in SearchRadii : Change([req EXCEPT !.searchRadius = radius])

\* the axios.post of a request resolves (part_002 94-120, 194-196)
PostResolves ==
    \E request \in response :
        /\ last' = [last EXCEPT !.elevationProfile = ProfileFor(request),
                                !.loading = FALSE]
        /\ response' = response \ {request}
        /\ UNCHANGED <<req, file, pc, rasterReads, allPoints, i, profile,
                       cumulativeDistance>>

\* the axios.post of a request rejects (part_002 121-196)
PostRejects ==
    \E request \in response :
        /\ last' = [last EXCEPT !.elevationProfile = MockProfile(request),
                                !.loading = FALSE]
        /\ response' = response \ {request}
        /\ UNCHANGED <<req, file, pc, rasterReads, allPoints, i, profile,
                       cumulativeDistance>>

ClientNext ==
    \/ ChangePath
    \/ HandleDtmLoad
    \/ HandleDtmUnload
    \/ SetSearchRadius
    \/ PostResolves
    \/ PostRejects

ClientSpec == ClientInit /\ [][ClientNext]_vars

\* the densified path of the request, for the handler's sampling interval
Densified == AllPoints(req.coordinates.points, SamplingInterval)

\* C1: in every profile the first sample's distance is 0 and the distances
\* never decrease from one sample to the next.
C1_DistancesMonotone ==
    /\ Len(profile) >= 1 => profile[1].distance = 0
    /\ \A k \in 1..(Len(profile) - 1) :
          profile[k + 1].distance >= profile[k].distance
C1_Witness ==
    /\ response.status = 200
    /\ Len(response.profile) >= 4
    /\ response.profile[2].distance > 0
    /\ response.profile[4].distance > response.profile[2].distance

\* C2: a request whose coordinates are absent, no array or shorter than 2 is
\* answered 400 "Invalid coordinates array", and no raster is opened, decoded
\* or read while it is served.
C2_RejectedBeforeRaster ==
    (req.coordinates.kind # "array" \/ Len(req.coordinates.points) < 2)
        => /\ rasterReads = 0
           /\ pc \in {"received", "done"}
           /\ pc = "done" => /\ response.status = 400
                             /\ response.error = "Invalid coordinates array"
C2_Witness ==
    /\ pc = "done"
    /\ req.coordinates.kind = "array"
    /\ Len(req.coordinates.points) = 1
    /\ req.dtmPath = "uploads/dtm.tif"
    /\ response.status = 400
    /\ rasterReads = 0

\* C3: a successful build answers with exactly one sample per densified point,
\* in the order of the densified points and with their coordinates, whether or
\* not reprojection or sampling failed for the points.
C3_OneSamplePerPoint ==
    response.status = 200
        => /\ Len(response.profile) = Len(Densified)
           /\ \A k \in 1..Len(response.profile) :
                 /\ response.profile[k].longitude = Densified[k][1]
                 /\ response.profile[k].latitude = Densified[k][2]
C3_Witness ==
    /\ response.status = 200
    /\ Len(response.profile) >= 3
    /\ file = ProjUnknownCrsRaster
    /\ last.elevation = Null
    /\ last.minMax = NoMinMax

C5_ValidPointHasMinMax ==
    (last.set /\ last.elevation # Null) => last.minMax.min # Null

\* C6: whenever sampleElevation returns an elevation e for a point and
\* getMinMaxElevationInRadius returns {min, max} for it, min <= e <= max.
C6_ElevationWithinMinMax ==
    (last.set /\ last.elevation # Null /\ last.minMax.min # Null)
        => /\ last.minMax.min <= last.elevation
           /\ last.elevation <= last.minMax.max
C6_Witness ==
    /\ last.set
    /\ last.elevation # Null
    /\ last.minMax.min # Null
    /\ last.minMax.min < last.elevation
    /\ last.elevation < last.minMax.max

\* C7: the index sampleElevation reads lies in [0, width*height - 1] and is
\* the index of the pixel nearest to the computed one: each coordinate is
\* kept when it is in range and replaced by the nearest edge otherwise.
C7_IndexClamped ==
    (last.set /\ last.pixel.ok)
        => LET x == last.pixel.pixelX
               y == last.pixel.pixelY
               nearX == IF x < 0 THEN 0
                        ELSE IF x > file.width - 1 THEN file.width - 1 ELSE x
               nearY == IF y < 0 THEN 0
                        ELSE IF y > file.height - 1 THEN file.height - 1 ELSE y
           IN  /\ last.index >= 0
               /\ last.index <= file.width * file.height - 1
               /\ last.index = nearY * file.width + nearX
C7_Witness ==
    /\ last.set
    /\ last.pixel.ok
    /\ last.pixel.pixelX > file.width + 1
    /\ last.pixel.pixelY < 0
    /\ last.elevation = file.pixels[file.width]

\* C8: sampleElevation returns null when geoToPixel returns null or when the
\* pixel read is the raster's no-data value, NaN or not finite, and the stored
\* value of the clamped pixel in every other case.
C8_SampleValue ==
    last.set =>
        IF ~last.pixel.ok THEN last.elevation = Null
        ELSE LET stored == file.pixels[last.index + 1]
             IN  IF \/ (file.noData # Null /\ stored = file.noData)
                    \/ stored \in {NaNValue, PosInf, NegInf}
                 THEN last.elevation = Null
                 ELSE last.elevation = stored
C8_Witness ==
    /\ last.set
    /\ last.pixel.ok
    /\ file.pixels[last.index + 1] = NaNValue
    /\ last.elevation = Null

\* the sampling intervals the densification is examined for, besides the
\* handler's own
Intervals == 1..MaxInterval

\* C9 (as claimed): the densified path has at least as many points as the
\* input path, starts with the first vertex and ends with the last vertex.
C9_EndpointsAre(points, dense) ==
    /\ Len(dense) >= Len(points)
    /\ dense[1] = points[1]
    /\ dense[Len(dense)] = points[Len(points)]
C9_EndpointsExact ==
    /\ allPoints # <<>> => C9_EndpointsAre(req.coordinates.points, allPoints)
    /\ (pc = "sample" /\ i = 0) =>
          \A iv \in Intervals :
             C9_EndpointsAre(req.coordinates.points,
                             AllPoints(req.coordinates.points, iv))

\* C9 (amended): the densified path has at least as many points as the input
\* path and starts with the first vertex; its last point is the last vertex
\* whenever end - start of the last segment is computed without rounding, and
\* in general differs from it by no more than the rounding errors of
\* end - start and of start + (end - start).
C9_LastWithinRounding(a, b, x) ==
    /\ Fl(b - a) = b - a => x = b
    /\ Pow2(MantissaBits) * Abs(x - b) <= Abs(b - a) + Abs(a + Fl(b - a))
C9_EndpointsHold(points, dense) ==
    LET n == Len(points)
    IN  /\ Len(dense) >= n
        /\ dense[1] = points[1]
        /\ \A c \in 1..2 :
              C9_LastWithinRounding(points[n - 1][c], points[n][c],
                                    dense[Len(dense)][c])
C9_EndpointsRounded ==
    /\ allPoints # <<>> => C9_EndpointsHold(req.coordinates.points, allPoints)
    /\ (pc = "sample" /\ i = 0) =>
          \A iv \in Intervals :
             C9_EndpointsHold(req.coordinates.points,
                              AllPoints(req.coordinates.points, iv))
C9_Witness ==
    /\ pc = "sample"
    /\ Len(req.coordinates.points) = 3
    /\ Len(allPoints) > 3
    /\ allPoints[1] = req.coordinates.points[1]
    /\ allPoints[Len(allPoints)] = req.coordinates.points[3]
    /\ req.coordinates.points[3] # req.coordinates.points[2]

\* the number of points of segment k and the position of vertex j in the
\* densified path, as C10 states them
C10_SegmentCount(points, k, iv) ==
    LET d == CalculateDistance(points[k], points[k + 1])
        quotient == IF d % iv = 0 THEN d \div iv ELSE d \div iv + 1
    IN  IF quotient < 2 THEN 2 ELSE quotient
RECURSIVE C10_Position(_, _, _)
C10_Position(points, j, iv) ==
    IF j = 1 THEN 1
    ELSE C10_Position(points, j - 1, iv) + C10_SegmentCount(points, j - 1, iv) - 1

\* C10 (as claimed): segment k contributes max(2, ceil(distance/interval))
\* points of which the first is dropped, so the densified path has
\* 1 + sum (n_k - 1) points, and vertex j of the input is its point number
\* 1 + sum over k < j of (n_k - 1).
C10_CountAndVertices(points, dense, iv) ==
    /\ Len(dense) = C10_Position(points, Len(points), iv)
    /\ \A j \in 1..Len(points) :
          /\ C10_Position(points, j, iv) <= Len(dense)
          /\ dense[C10_Position(points, j, iv)] = points[j]
C10_VerticesExact ==
    /\ allPoints # <<>> =>
          C10_CountAndVertices(req.coordinates.points, allPoints, SamplingInterval)
    /\ (pc = "sample" /\ i = 0) =>
          \A iv \in Intervals :
             C10_CountAndVertices(req.coordinates.points,
                                  AllPoints(req.coordinates.points, iv), iv)

\* C10 (amended): the count is as claimed; the first vertex is the first
\* point, and vertex j > 1 is found at its position up to the rounding of
\* start + (end - start) on the segment that ends in it (exactly when
\* end - start is computed without rounding).
C10_CountAndRoundedVertices(points, dense, iv) ==
    /\ Len(dense) = C10_Position(points, Len(points), iv)
    /\ dense[1] = points[1]
    /\ \A j \in 2..Len(points) :
          /\ C10_Position(points, j, iv) <= Len(dense)
          /\ C10_Position(points, j, iv) > C10_Position(points, j - 1, iv)
          /\ \A c \in 1..2 :
                C9_LastWithinRounding(points[j - 1][c], points[j][c],
                                      dense[C10_Position(points, j, iv)][c])
C10_VerticesRounded ==
    /\ allPoints # <<>> =>
          C10_CountAndRoundedVertices(req.coordinates.points, allPoints,
                                      SamplingInterval)
    /\ (pc = "sample" /\ i = 0) =>
          \A iv \in Intervals :
             C10_CountAndRoundedVertices(req.coordinates.points,
                                         AllPoints(req.coordinates.points, iv), iv)
C10_Witness ==
    /\ pc = "sample"
    /\ Len(req.coordinates.points) = 3
    /\ req.coordinates.points[1] = req.coordinates.points[3]
    /\ req.coordinates.points[1] # req.coordinates.points[2]
    /\ C10_SegmentCount(req.coordinates.points, 1, SamplingInterval) >= 3
    /\ Len(allPoints) = 2 * C10_SegmentCount(req.coordinates.points, 1, SamplingInterval) - 1
    /\ allPoints[C10_SegmentCount(req.coordinates.points, 1, SamplingInterval)]
          = req.coordinates.points[2]
    /\ allPoints[Len(allPoints)] = req.coordinates.points[3]

\* C11: a raster is classified as projected exactly when one of its bounds
\* lies beyond the geographic range (|minX| > 180, |maxX| > 180, |minY| > 90
\* or |maxY| > 90 degrees); a raster whose bounds all lie within the range,
\* the limits 180 and 90 themselves included, is classified as geographic.
C11_ProjectedIffBeyondRange ==
    (pc = "served" /\ response.status = 200) =>
        LET b == response.bounds
            lonLimit == 180 * UnitsPerDegree
            latLimit == 90 * UnitsPerDegree
            beyond == \/ b[1] > lonLimit \/ b[1] < -lonLimit
                      \/ b[3] > lonLimit \/ b[3] < -lonLimit
                      \/ b[2] > latLimit \/ b[2] < -latLimit
                      \/ b[4] > latLimit \/ b[4] < -latLimit
        IN  /\ response.isProjected <=> beyond
            /\ b \in ((-lonLimit)..lonLimit) \X ((-latLimit)..latLimit)
                      \X ((-lonLimit)..lonLimit) \X ((-latLimit)..latLimit)
                  => ~response.isProjected
C11_Witness ==
    /\ pc = "served"
    /\ response.status = 200
    /\ response.bounds = <<-180 * UnitsPerDegree, -90 * UnitsPerDegree,
                           180 * UnitsPerDegree, 90 * UnitsPerDegree>>
    /\ ~response.isProjected

\* the point (lon, lat) lies in the bounding box of raster r (after the
\* projection when r is projected)
C12_InsideExtent(r, lon, lat) ==
    LET xy == IF Transforms(r) THEN Proj4Forward(<<lon, lat>>) ELSE <<lon, lat>>
    IN  /\ r.bbox[1] <= xy[1] /\ xy[1] <= r.bbox[3]
        /\ r.bbox[2] <= xy[2] /\ xy[2] <= r.bbox[4]

\* C12: on a raster with tie point and pixel scale, a point inside the extent
\* that is converted to its pixel and back comes out no further from itself
\* than one pixel's scale in x and in y, and an integer pixel that is
\* converted to its coordinate and back to a pixel comes out as itself
\* (whenever the conversions return a result).
C12_AffineRoundTrip ==
    (pc = "tripped" /\ last.ok) =>
        /\ (req.kind = "geo" /\ C12_InsideExtent(file, req.at[1], req.at[2])) =>
              /\ Abs(last.geo[1] - req.at[1]) <= file.scale[1]
              /\ Abs(last.geo[2] - req.at[2]) <= file.scale[2]
        /\ req.kind = "pixel" =>
              /\ last.pixel.pixelX = req.at[1]
              /\ last.pixel.pixelY = req.at[2]
C12_Witness ==
    /\ pc = "tripped"
    /\ last.ok
    /\ file = GeoTiedRaster
    /\ req.kind = "geo"
    /\ C12_InsideExtent(file, req.at[1], req.at[2])
    /\ last.pixel.pixelX = 2
    /\ last.pixel.pixelY = 1
    /\ last.geo # req.at

\* C13 (as claimed): for a fixed centre and raster and radii r1 <= r2 for
\* which getMinMaxElevationInRadius returns statistics, the wider radius's max
\* is not below and its min is not above the narrower radius's.
C13_WideningMonotone ==
    (pc = "widened" /\ last.narrow.min # Null /\ last.wide.min # Null)
        => /\ last.wide.max >= last.narrow.max
           /\ last.wide.min <= last.narrow.min

\* the pixel of the native coordinate xy of raster r
C14_NativePixel(r, xy) ==
    IF r.hasModel
    THEN [ok |-> TRUE,
          pixelX |-> MathRound(xy[1] - r.tiepoint[3] + r.tiepoint[1] * r.scale[1],
                               r.scale[1]),
          pixelY |-> MathRound(r.tiepoint[4] - xy[2] + r.tiepoint[2] * r.scale[2],
                               r.scale[2])]
    ELSE [ok |-> TRUE,
          pixelX |-> MathRound((xy[1] - r.bbox[1]) * r.width, r.bbox[3] - r.bbox[1]),
          pixelY |-> MathRound((r.bbox[4] - xy[2]) * r.height, r.bbox[4] - r.bbox[2])]

\* C14: for a raster that is classified as projected and carries no CRS key,
\* every point is looked up at the pixel of its image under the default
\* projection EPSG:32636, and a request that passes validation is answered
\* with a profile of one sample per densified point; for a raster classified
\* as geographic every point is looked up at the pixel of its own
\* coordinates, with or without a CRS key.
C14_DefaultProjection ==
    /\ (IsProjected(file.bbox) /\ file.epsg = 0) =>
          /\ SourceProj(file) = 32636
          /\ last.set =>
                last.pixel = C14_NativePixel(file, <<last.lon + ProjOrigin[1],
                                                     last.lat + ProjOrigin[2]>>)
          /\ (pc = "done" /\ rasterReads > 0) =>
                /\ response.status = 200
                /\ Len(response.profile) = Len(Densified)
    /\ ~IsProjected(file.bbox) =>
          (last.set => last.pixel = C14_NativePixel(file, <<last.lon, last.lat>>))
C14_Witness ==
    /\ pc = "done"
    /\ file = ProjFallbackRaster
    /\ response.status = 200
    /\ Len(response.profile) >= 3
    /\ last.elevation # Null
    /\ response.profile[Len(response.profile)].elevation = last.elevation

\* C15: when the reprojection of a query point into the raster's CRS fails,
\* geoToPixel returns null, sampleElevation returns null and
\* getMinMaxElevationInRadius returns {min: null, max: null} for the point;
\* the calls return, the error does not leave them.
C15_ReprojectionFailure ==
    /\ (pc = "query" /\ Transforms(file) /\ Proj4Throws(SourceProj(file)))
          => ENABLED EvaluatePoint
    /\ (pc = "queried" /\ Transforms(file) /\ Proj4Throws(SourceProj(file)))
          => /\ last.set
             /\ ~last.pixel.ok
             /\ last.elevation = Null
             /\ last.minMax = [min |-> Null, max |-> Null]
C15_Witness ==
    /\ pc = "queried"
    /\ file = ProjUnknownCrsRaster
    /\ last.lon \in 2..8
    /\ last.lat \in 2..8
    /\ ~last.pixel.ok
    /\ last.elevation = Null
    /\ last.minMax.min = Null

\* C16 (as claimed): the statistics of every sample are those of the radius
\* the request specifies, and those of 50 metres only when the request
\* specifies none.
C16_RadiusAsRequested ==
    last.set =>
        LET asked == IF req.radiusMeters = Undefined THEN 50 ELSE req.radiusMeters
        IN  /\ last.radius = asked
            /\ last.minMax = GetMinMaxElevationInRadius(file, last.lon, last.lat,
                                                        asked)

\* the stored values of the pixels on the edge of raster r
C17_EdgeValues(r) ==
    {r.pixels[y * r.width + x + 1] :
        x \in 0..(r.width - 1), y \in {0, r.height - 1}}
      \cup {r.pixels[y * r.width + x + 1] :
                x \in {0, r.width - 1}, y \in 0..(r.height - 1)}

\* C17: on the 4x4 geographic raster with bounds [0, 0, 4, 4], no-data -9999
\* and pixels 10 20 30 40 / 15 25 35 45 / 12 22 32 42 / 11 21 31 41 without
\* model tags, sampleElevation(2.0, 2.0) returns an elevation in [0, 45] and
\* sampleElevation(100, 100) returns the value of an edge pixel, not null.
C17_ScenarioA ==
    (pc = "sampled" /\ file = DegreeRaster) =>
        /\ (last.lon = 2 * UnitsPerDegree /\ last.lat = 2 * UnitsPerDegree) =>
              /\ last.elevation # Null
              /\ last.elevation >= 0
              /\ last.elevation <= 45
        /\ (last.lon = 100 * UnitsPerDegree /\ last.lat = 100 * UnitsPerDegree) =>
              /\ last.elevation # Null
              /\ last.elevation \in C17_EdgeValues(file)
              /\ last.elevation = file.pixels[last.index + 1]
              /\ last.index \in 0..(file.width * file.height - 1)
C17_Witness ==
    /\ pc = "sampled"
    /\ file = DegreeRaster
    /\ last.lon = 100 * UnitsPerDegree
    /\ last.lat = 100 * UnitsPerDegree
    /\ last.pixel.pixelX > 3
    /\ last.pixel.pixelY < 0
    /\ last.elevation = 40

\* C18: a straight path of 2 vertices that are 1000 m apart (to the metre) is
\* answered with a profile of 200 or 201 samples at the interval of 5 m, and
\* the distance of the last sample is within 1% of 1000 m.
C18_ScenarioB ==
    LET points == req.coordinates.points
        apart == FineDistance(points[1], points[2])
    IN  (pc = "done" /\ Len(points) = 2
            /\ apart >= 999 * MillisPerMeter /\ apart <= 1001 * MillisPerMeter)
            => /\ response.status = 200
               /\ Len(response.profile) \in {200, 201}
               /\ response.profile[Len(response.profile)].distance
                      >= 990 * MillisPerMeter
               /\ response.profile[Len(response.profile)].distance
                      <= 1010 * MillisPerMeter
C18_Witness ==
    /\ pc = "done"
    /\ response.status = 200
    /\ Len(response.profile) = 200
    /\ req.coordinates.points[2][1] # req.coordinates.points[1][1]
    /\ req.coordinates.points[2][2] # req.coordinates.points[1][2]
    /\ response.profile[200].distance > 999 * MillisPerMeter
    /\ response.profile[200].distance <= 1000 * MillisPerMeter
    /\ response.profile[2].distance > 4 * MillisPerMeter

\* the response of a request that is served alone
C19_Alone(request) ==
    IF request.coordinates.kind # "array" \/ Len(request.coordinates.points) < 2
    THEN [status |-> 400, error |-> "Invalid coordinates array", profile |-> <<>>]
    ELSE IF request.dtmPath \notin DOMAIN Uploads
    THEN [status |-> 404, error |-> "DTM file not found", profile |-> <<>>]
    ELSE [status |-> 200, error |-> "",
          profile |-> ProfileFrom(Uploads[request.dtmPath],
                                  AllPoints(request.coordinates.points, 5),
                                  50, 0, 0)]

\* C19: however the handlers of concurrent profile requests interleave, on
\* the same raster or on different ones, every request is answered as it is
\* when served alone, and the uploaded rasters stay as they were.
C19_NoSharedState ==
    /\ file = Uploads
    /\ \A r \in RequestIds :
          /\ pc[r] = "done" => response[r] = C19_Alone(req[r])
          /\ pc[r] = "read" => last[r].elevationData = Uploads[req[r].dtmPath].pixels
C19_Witness ==
    /\ pc[1] = "read"
    /\ pc[2] = "done"
    /\ rasterReads[1] = 1
    /\ rasterReads[2] = 1
    /\ req[1].dtmPath # req[2].dtmPath
    /\ response[2].status = 200
    /\ Len(response[2].profile) >= 2
    /\ last[1].tiff # last[2].tiff

\* C20 (as claimed): a raster whose pixel data is empty or whose bounding box
\* is not 4 finite values makes the load fail with an error before any point
\* is sampled, and no profile is answered from it.
C20_MalformedRejected ==
    (\/ file.pixels = <<>>
     \/ Len(file.bbox) # 4
     \/ \E k \in 1..Len(file.bbox) : ~IsFiniteJs(file.bbox[k]))
        => /\ ~last.set
           /\ profile = <<>>
           /\ pc = "done" => /\ response.status >= 400
                             /\ response.profile = <<>>

\* the stepped grid over the rows and columns between the two window corners
C21_Grid(r, w, radiusMeters) ==
    LET loY == Min(w.minPixelY, w.maxPixelY)
        hiY == Max(w.minPixelY, w.maxPixelY)
        loX == Min(w.minPixelX, w.maxPixelX)
        hiX == Max(w.minPixelX, w.maxPixelX)
        est == EstimatedPixelsInRadius(r, radiusMeters)
        step == Max(1, ISqrt((((hiX - loX) * (hiY - loY)) * est[2]) \div est[1]))
    IN  LoopValues(loX, hiX, step) \X LoopValues(loY, hiY, step)

\* C21 (as claimed): on a north-up raster the clamped pixel window has its
\* lowest column <= highest column and lowest row <= highest row, and every
\* valid pixel on the stepped grid of the window within radiusMeters of the
\* query point lies between the returned min and max.
C21_WindowScanned ==
    LET w == PixelWindow(file, last.lon, last.lat, last.radius)
    IN  (pc = "queried" /\ w.ok /\ last.pixel.ok)
            => /\ w.minPixelX <= w.maxPixelX
               /\ w.minPixelY <= w.maxPixelY
               /\ \A p \in C21_Grid(file, w, last.radius) :
                     LET g == ScanCoordinate(file, p[1], p[2])
                         v == ElevationData(file, p[2] * file.width + p[1])
                     IN  (/\ g.ok
                          /\ ~DistanceExceeds(<<last.lon, last.lat>>, g.c, last.radius)
                          /\ IsElevation(file, v))
                            => /\ last.minMax.min # Null
                               /\ last.minMax.min <= v
                               /\ v <= last.minMax.max

\* C22 (as claimed): for every pixel the stepped scan visits on a projected
\* raster, the coordinate compared with the query point is a WGS84
\* longitude/latitude, with the affine transform and with the bounding-box
\* fallback alike.
C22_ScanComparesWgs84 ==
    LET w == PixelWindow(file, last.lon, last.lat, last.radius)
    IN  (pc = "queried" /\ IsProjected(file.bbox) /\ w.ok /\ last.pixel.ok)
            => \A p \in ScanPixels(file, w, last.radius) :
                  LET g == ScanCoordinate(file, p[1], p[2])
                  IN  g.ok => /\ Abs(g.c[1]) <= MaxGeoLon * UnitsPerDegree
                              /\ Abs(g.c[2]) <= MaxGeoLat * UnitsPerDegree

\* the WGS84 position of pixel (px, py) of a raster
C23_PixelPosition(r, px, py) ==
    LET native == IF r.hasModel
                  THEN <<(px - r.tiepoint[1]) * r.scale[1] + r.tiepoint[3],
                         r.tiepoint[4] - (py - r.tiepoint[2]) * r.scale[2]>>
                  ELSE <<r.bbox[1] + MathRound(px * (r.bbox[3] - r.bbox[1]), r.width),
                         r.bbox[4] - MathRound(py * (r.bbox[4] - r.bbox[2]), r.height)>>
    IN  IF IsProjected(r.bbox) THEN Proj4Inverse(native) ELSE native

\* some pixel within radiusMeters of (lon, lat) holds the elevation v
C23_HeldWithin(r, lon, lat, radiusMeters, v) ==
    \E px \in 0..(r.width - 1), py \in 0..(r.height - 1) :
        /\ ElevationData(r, py * r.width + px) = v
        /\ IsElevation(r, v)
        /\ ~DistanceExceeds(<<lon, lat>>, C23_PixelPosition(r, px, py), radiusMeters)

\* C23 (as claimed): the min and the max getMinMaxElevationInRadius returns
\* are elevations of pixels within radiusMeters of the query point, whatever
\* the pixel size.
C23_MinMaxWithinRadius ==
    (pc = "queried" /\ last.minMax.min # Null)
        => /\ C23_HeldWithin(file, last.lon, last.lat, last.radius, last.minMax.min)
           /\ C23_HeldWithin(file, last.lon, last.lat, last.radius, last.minMax.max)

\* C24 (as claimed): within a segment the densified points are equally spaced
\* (to the 20 mm that rounding two points to the grid of fine units can
\* shift a spacing by), and no spacing exceeds the sampling interval.
C24_SpacingWithinInterval ==
    (pc = "sample" /\ i = 0 /\ Len(allPoints) >= 2
            /\ Len(req.coordinates.points) = 2)
        => \A k \in 1..(Len(allPoints) - 1) :
              LET spacing == FineDistance(allPoints[k], allPoints[k + 1])
                  first == FineDistance(allPoints[1], allPoints[2])
              IN  /\ Abs(spacing - first) <= 20
                  /\ spacing <= SamplingInterval * MillisPerMeter + 20

\* C25: for every query point and radius whose window exists, the step of the
\* scan is an integer >= 1, or it is NaN and the rows of the window are such
\* that the loop body is never entered; the scan visits each pixel of the
\* raster at most once.
C25_ScanTerminates ==
    LET lon == req.coordinates.points[1][1]
        lat == req.coordinates.points[1][2]
        w == PixelWindow(file, lon, lat, req.radiusMeters)
        step == StepSize(file, w, req.radiusMeters)
    IN  w.ok =>
            IF step = NaNValue
            THEN w.minPixelY > w.maxPixelY
            ELSE /\ step >= 1
                 /\ ScanPixels(file, w, req.radiusMeters)
                        \subseteq (0..(file.width - 1)) \X (0..(file.height - 1))
C25_Witness ==
    LET w == PixelWindow(file, last.lon, last.lat, last.radius)
    IN  /\ pc = "queried"
        /\ w.ok
        /\ StepSize(file, w, last.radius) = 1
        /\ Cardinality(ScanPixels(file, w, last.radius)) >= 3
        /\ last.minMax.min # Null

\* C28: after any sequence of edits, undo, redo and resetHistory the history
\* holds between 1 and 50 states, currentIndex is an index of it, and the
\* exposed state is history[currentIndex]; once more than 50 states were
\* pushed the history is full and holds the newest state last, as the
\* current one.
C28_HistoryWellFormed ==
    /\ Len(last.history) >= 1
    /\ Len(last.history) <= 50
    /\ last.currentIndex >= 0
    /\ last.currentIndex <= Len(last.history) - 1
    /\ last.state = last.history[last.currentIndex + 1]
    /\ (req.op = "edit" /\ req.imports = 0 /\ req.undos = 0 /\ req.edits >= 50)
          => /\ Len(last.history) = 50
             /\ last.currentIndex = 49
             /\ last.history[50] = req.edits
             /\ last.history[1] = req.edits - 49
C28_Witness ==
    /\ req.op = "edit"
    /\ req.edits = 51
    /\ req.undos = 1
    /\ Len(last.history) = 50
    /\ last.history[1] > 0
    /\ last.state = 51

\* k edits to paths that were not there before, and k undos, one after the
\* other
RECURSIVE C29_EditTimes(_, _)
C29_EditTimes(s, k) ==
    LET after == SetStateWithHistory(s, 2 * (MaxEdits + MaxImports) + k, TRUE)
    IN  IF k = 0 THEN s
        ELSE IF after.state = after.state THEN C29_EditTimes(after, k - 1)
        ELSE s
RECURSIVE C29_UndoTimes(_, _)
C29_UndoTimes(s, k) ==
    LET after == Undo(s)
    IN  IF k = 0 THEN s
        ELSE IF after.state = after.state THEN C29_UndoTimes(after, k - 1)
        ELSE s

\* C29: from every store the operations lead to, undo followed by redo (when
\* undo is possible) gives back the state and the index, and k edits followed
\* by k undos give back the state: for k = 1 and 2 from every store, for
\* k = 49 from the stores whose history is at most 2 or at least 49 long.
C29_UndoRedoInverse ==
    /\ last.currentIndex > 0
          => LET again == Redo(Undo(last))
             IN  /\ again.state = last.state
                 /\ again.currentIndex = last.currentIndex
    /\ \A k \in {1, 2} :
          C29_UndoTimes(C29_EditTimes(last, k), k).state = last.state
    /\ (Len(last.history) <= 2 \/ Len(last.history) >= 49)
          => C29_UndoTimes(C29_EditTimes(last, 49), 49).state = last.state
C29_Witness ==
    /\ req.op = "redo"
    /\ req.edits >= 50
    /\ last.currentIndex = Len(last.history) - 1
    /\ last.currentIndex > 0
    /\ last.state = last.history[last.currentIndex + 1]
    /\ C29_EditTimes(last, 49).history[1] = last.state

\* C30 (as claimed): after every operation canUndo is true exactly when undo
\* would change the state and canRedo exactly when redo would; canRedo is
\* false after an edit and after resetHistory (GeoJSON import).
C30_FlagsExact ==
    /\ last.canUndo <=> (Undo(last).state # last.state)
    /\ last.canRedo <=> (Redo(last).state # last.state)
    /\ req.op \in {"edit", "import"} => ~last.canRedo

\* C26 (as claimed): once no request is in flight the displayed profile is
\* the one computed for the latest calculateProfile call (the server's
\* answer to it, or the mock profile when the request failed), and loading
\* is true whenever a request is in flight.
C26_LatestProfileShown ==
    /\ response = {}
          => last.elevationProfile
                \in {ProfileFor(last.requested), MockProfile(last.requested)}
    /\ response # {} => last.loading

\* C27 (as claimed): whenever the flight path has fewer than 2 points and no
\* request is in flight, the displayed profile is empty.
C27_ShortPathNoProfile ==
    (Len(req.flightPath) < 2 /\ response = {})
        => last.elevationProfile = <<>>

====
